---------------------------- MODULE Spec2Model ----------------------------
(***************************************************************************)
(* A model of src/parser.py, the tokenizer, token stream and recursive     *)
(* descent parser of the PL241-MCS compiler.                               *)
(*                                                                         *)
(* A character is a one-character string, a source text and a token are    *)
(* sequences of characters.  A parse tree is the sequence of the nodes     *)
(* created so far; a node is named by its index in that sequence (its      *)
(* creation order) and Python's None is the index 0.                       *)
(***************************************************************************)
EXTENDS Integers, Sequences, FiniteSets, TLC

VARIABLES
  pc,       \* position of the run: which call of the program is next
  src,      \* TokenStream.src, the source text
  tokens,   \* TokenStream.__tokens
  sp,       \* TokenStream.__stream_pointer (a number, or None)
  ret,      \* what the last TokenStream method call returned or raised
  nodes,    \* every Node object created so far, in creation order
  stack,    \* the active handler frames, outermost first
  result    \* how Parser.__parse ended, once it has

vars == <<pc, src, tokens, sp, ret, nodes, stack, result>>

(***************************************************************************)
(* Bounds of the model.                                                    *)
(***************************************************************************)
MaxSrcLen == 4      \* longest enumerated source text (characters)
MaxStreamLen == 3   \* longest enumerated token list of the TokenStream runs
MaxTokens == 6      \* longest enumerated token list of the parser runs
MaxLeafLen == 3     \* longest enumerated bare token of the leaf runs

NoNode == 0         \* Python's None where a Node is expected
SpNone == -1        \* Python's None as the value of __stream_pointer

(***************************************************************************)
(* Characters and the regular expressions (lines 60-65).                   *)
(***************************************************************************)
Letter ==
  {"a","b","c","d","e","f","g","h","i","j","k","l","m","n","o","p","q","r",
   "s","t","u","v","w","x","y","z",
   "A","B","C","D","E","F","G","H","I","J","K","L","M","N","O","P","Q","R",
   "S","T","U","V","W","X","Y","Z"}

Digit == {"0","1","2","3","4","5","6","7","8","9"}

\* \s of Python's re for byte strings
Whitespace == {" ", "\t", "\n", "\r", "\f"}

\* the two-character alternatives of TOKEN_RE, in their order
TwoCharOperators == {<<"<","-">>, <<"=","=">>, <<"!","=">>, <<"<","=">>, <<">","=">>}

\* the characters the class [^\s+] of TOKEN_RE excludes
ExcludedByFallback == Whitespace \cup {"+"}

\* the length of the longest run of characters of set S in s from index i
RECURSIVE RunLen(_, _, _)
RunLen(s, i, S) ==
  IF i > Len(s) \/ s[i] \notin S THEN 0 ELSE 1 + RunLen(s, i + 1, S)

\* NUMBER_PATTERN \d+ matched at index i: the length matched, 0 for no match
NumberMatchLen_Alnum(s, i) ==
  IF i <= Len(s) /\ s[i] \in Digit THEN RunLen(s, i, Digit \cup Letter) ELSE 0

NumberMatchLen(s, i) == RunLen(s, i, Digit)

\* IDENT_PATTERN [a-zA-Z][a-zA-Z0-9]* matched at index i
IdentMatchLen(s, i) ==
  IF i <= Len(s) /\ s[i] \in Letter
    THEN 1 + RunLen(s, i + 1, Letter \cup Digit)
    ELSE 0

\* IDENT_RE.match(token) and NUMBER_RE.match(token): a match at the start of
\* the token, not of the whole token
IDENT_RE_match(token) == IdentMatchLen(token, 1) > 0

NUMBER_RE_match(token) == NumberMatchLen(token, 1) > 0

\* TOKEN_RE matched at index i: the alternatives are tried in order and the
\* first that matches wins
TokenMatchLen(s, i) ==
  IF NumberMatchLen(s, i) > 0 THEN NumberMatchLen(s, i)
  ELSE IF IdentMatchLen(s, i) > 0 THEN IdentMatchLen(s, i)
  ELSE IF i < Len(s) /\ <<s[i], s[i + 1]>> \in TwoCharOperators THEN 2
  ELSE IF s[i] \notin ExcludedByFallback THEN 1
  ELSE 0

\* TOKEN_RE.findall(s) from index i: the non-overlapping matches left to
\* right; a position where nothing matches is skipped
RECURSIVE FindAll(_, _)
FindAll(s, i) ==
  IF i > Len(s) THEN <<>>
  ELSE LET n == TokenMatchLen(s, i) IN
       IF n = 0 THEN FindAll(s, i + 1)
       ELSE <<SubSeq(s, i, i + n - 1)>> \o FindAll(s, i + n)

\* TokenStream.__tokenize: the token list of a source
Tokenize(s) == FindAll(s, 1)

(***************************************************************************)
(* Helpers of the statements about token lists.                            *)
(***************************************************************************)
RECURSIVE Flatten(_)
Flatten(ts) == IF ts = <<>> THEN <<>> ELSE Head(ts) \o Flatten(Tail(ts))

RECURSIVE StripWhitespace(_)
StripWhitespace(s) ==
  IF s = <<>> THEN <<>>
  ELSE IF Head(s) \in Whitespace THEN StripWhitespace(Tail(s))
  ELSE <<Head(s)>> \o StripWhitespace(Tail(s))

SeqsUpTo(S, n) == UNION {[1..k -> S] : k \in 0..n}

\* the last TokenStream call: the method, its argument, the pointer it
\* started from, the exception it raised ("" for none), the value returned
NoCall == [op |-> "none", arg |-> <<>>, from |-> SpNone, exc |-> "", val |-> <<>>]

\* the outcome of Parser.__parse: still running, or returned (root is the
\* node returned), or the exception that left it
Running == [kind |-> "running", msg |-> "", root |-> NoNode]

(***************************************************************************)
(* The tokenizer runs: a source text is given to TokenStream(src).         *)
(***************************************************************************)
SrcChars == {"a", "1", " ", "+", "<", "-"}

\* "let x <- 1 + 2 ;"
SrcLet == <<"l","e","t"," ","x"," ","<","-"," ","1"," ","+"," ","2"," ",";">>
\* "1abc"
Src1abc == <<"1","a","b","c">>
\* "abc123 123"
SrcLeaves == <<"a","b","c","1","2","3"," ","1","2","3">>

Sources == SeqsUpTo(SrcChars, MaxSrcLen) \cup {SrcLet, Src1abc, SrcLeaves}

InitLex ==
  /\ pc = "source"
  /\ src \in Sources
  /\ tokens = <<>>
  /\ sp = SpNone
  /\ ret = NoCall
  /\ nodes = <<>>
  /\ stack = <<>>
  /\ result = Running

\* TokenStream.__init__: self.src = src; self.__tokenize()
TokenStreamInit ==
  /\ pc = "source"
  /\ tokens' = Tokenize(src)
  /\ sp' = 0
  /\ pc' = "tokenized"
  /\ UNCHANGED <<src, ret, nodes, stack, result>>

NextLex == TokenStreamInit

SpecLex == InitLex /\ [][NextLex]_vars

(***************************************************************************)
(* The token stream (class TokenStream, lines 175-236).                    *)
(***************************************************************************)
KW_array == <<"a","r","r","a","y">>
KW_call == <<"c","a","l","l">>
KW_do == <<"d","o">>
KW_else == <<"e","l","s","e">>
KW_fi == <<"f","i">>
KW_function == <<"f","u","n","c","t","i","o","n">>
KW_if == <<"i","f">>
KW_let == <<"l","e","t">>
KW_main == <<"m","a","i","n">>
KW_od == <<"o","d">>
KW_procedure == <<"p","r","o","c","e","d","u","r","e">>
KW_return == <<"r","e","t","u","r","n">>
KW_then == <<"t","h","e","n">>
KW_var == <<"v","a","r">>
KW_while == <<"w","h","i","l","e">>

\* Parser.KEYWORDS (lines 246-248)
KEYWORDS ==
  {KW_array, KW_call, KW_do, KW_else, KW_fi, KW_function, KW_if, KW_let,
   KW_main, KW_od, KW_procedure, KW_return, KW_then, KW_var, KW_while}

\* a source text whose tokens are ts: the tokens separated by one blank
RECURSIVE JoinWithSpace(_)
JoinWithSpace(ts) ==
  IF ts = <<>> THEN <<>>
  ELSE IF Len(ts) = 1 THEN Head(ts)
  ELSE Head(ts) \o <<" ">> \o JoinWithSpace(Tail(ts))

\* list.index(token) from position `from` on (0-based): the 0-based index of
\* the first occurrence at or after `from`, SpNone when there is none
IndexFrom(ts, token, from) ==
  LET hits == {i \in from..(Len(ts) - 1) : ts[i + 1] = token} IN
    IF hits = {} THEN SpNone
    ELSE CHOOSE i \in hits : \A j \in hits : i <= j

\* self.__tokens.index(token), line 204: the search starts at index 0
\* whatever the stream pointer p is
TokensIndex(ts, token, p) == IndexFrom(ts, token, 0)

\* TokenStream.fastforward(token) (lines 200-206) called with the pointer at
\* p: the new pointer and the call's outcome
fastforward(ts, p, token) ==
  LET i == TokensIndex(ts, token, p) IN
    IF i = SpNone
      THEN [sp |-> p,
            ret |-> [op |-> "fastforward", arg |-> token, from |-> p,
                     exc |-> "LanguageSyntaxError", val |-> <<>>]]
      ELSE [sp |-> i,
            ret |-> [op |-> "fastforward", arg |-> token, from |-> p,
                     exc |-> "", val |-> <<>>]]

\* TokenStream.look_ahead() (lines 208-216): list indexing with None is a
\* TypeError, with an index past the end an IndexError
look_ahead(ts, p) ==
  [sp |-> p,
   ret |-> [op |-> "look_ahead", arg |-> <<>>, from |-> p,
            exc |-> IF p = SpNone THEN "TypeError"
                    ELSE IF p >= Len(ts) THEN "IndexError" ELSE "",
            val |-> IF p # SpNone /\ p < Len(ts) THEN ts[p + 1] ELSE <<>>]]

\* the pointer next() reads with: a None pointer makes it tokenize again,
\* which sets the pointer to 0 (lines 226-227, 198)
PointerAfterNoneCheck(p) == IF p = SpNone THEN 0 ELSE p

\* TokenStream.next() (lines 223-236)
next(ts, p) ==
  LET q == PointerAfterNoneCheck(p) IN
    IF q < Len(ts)
      THEN [sp |-> q + 1,
            ret |-> [op |-> "next", arg |-> <<>>, from |-> p,
                     exc |-> "", val |-> ts[q + 1]]]
      ELSE [sp |-> SpNone,
            ret |-> [op |-> "next", arg |-> <<>>, from |-> p,
                     exc |-> "StopIteration", val |-> <<>>]]

(***************************************************************************)
(* The token stream runs: a TokenStream has been constructed on a source   *)
(* and its methods are called in any order.                                *)
(***************************************************************************)
StreamVocab == {KW_main, <<"a">>, <<".">>}

InitStream ==
  /\ pc = "stream"
  /\ \E ts \in SeqsUpTo(StreamVocab, MaxStreamLen) :
       /\ src = JoinWithSpace(ts)
       /\ tokens = Tokenize(src)
  /\ sp = 0
  /\ ret = NoCall
  /\ nodes = <<>>
  /\ stack = <<>>
  /\ result = Running

\* the tokens a None pointer makes next() compute again (line 227)
TokensAfterNoneCheck == IF sp = SpNone THEN Tokenize(src) ELSE tokens

CallNext ==
  /\ pc = "stream"
  /\ tokens' = TokensAfterNoneCheck
  /\ sp' = next(tokens', sp).sp
  /\ ret' = next(tokens', sp).ret
  /\ UNCHANGED <<pc, src, nodes, stack, result>>

CallLookAhead ==
  /\ pc = "stream"
  /\ sp' = look_ahead(tokens, sp).sp
  /\ ret' = look_ahead(tokens, sp).ret
  /\ UNCHANGED <<pc, src, tokens, nodes, stack, result>>

CallFastForward ==
  /\ pc = "stream"
  /\ \E t \in StreamVocab :
       /\ sp' = fastforward(tokens, sp, t).sp
       /\ ret' = fastforward(tokens, sp, t).ret
  /\ UNCHANGED <<pc, src, tokens, nodes, stack, result>>

NextStream == CallNext \/ CallLookAhead \/ CallFastForward

SpecStream == InitStream /\ [][NextStream]_vars

(***************************************************************************)
(* The parse tree (class Node, lines 118-172).                             *)
(***************************************************************************)
NAME_condition == <<"c","o","n","d","i","t","i","o","n">>

\* Node.append_children(*children) on node id (lines 159-166)
append_children(ns, id, children) ==
  [ns EXCEPT ![id].children = @ \o children]

\* Node(node_type, name, parent) (lines 122-157): the node list with the new
\* node, which has appended itself to its parent's children
Node(ns, node_type, name, parent) ==
  LET new == [type |-> node_type, name |-> name, parent |-> parent,
              children |-> <<>>]
      ns1 == Append(ns, new)
  IN IF parent # NoNode THEN append_children(ns1, parent, <<Len(ns1)>>)
     ELSE ns1

(***************************************************************************)
(* The exceptions (lines 68-115) and their messages.                       *)
(***************************************************************************)
MsgMainNotFound == "\"main\" not found"
MsgNoPeriod == "Program does not end with a \".\""
MsgElseBeforeThen == "\"else\" found before the the matching \"then\"."
MsgFiBeforeThen == "\"fi\" found before the matching \"then\"."
MsgNoThen == "No matching \"then\" was found for the if."
MsgNoFi == "No matching \"fi\" was found for the if."
MsgExpectedIdent == "Expected identified but %s found."
MsgExpectedNumber == "Expected number but %s found."
MsgNeither == "Expected identifier or number, but %s is neither"

\* what a call does: return a value, enter __parse_if, or raise
ReturnNone == [kind |-> "None", exc |-> "", msg |-> ""]
EnterIf == [kind |-> "if", exc |-> "", msg |-> ""]
Raise(exc, msg) == [kind |-> "raise", exc |-> exc, msg |-> msg]

\* EndControlException and its subclasses (lines 81-115)
BoundaryExceptions ==
  {"ThenFoundException", "ElseFoundException", "FiFoundException",
   "RightBracketFoundException", "RightBraceFoundException",
   "RightParenthesisFoundException"}

(***************************************************************************)
(* Dispatch (Parser.__parse_next_token, lines 333-363).                    *)
(***************************************************************************)
\* Parser.is_keyword (lines 581-582)
is_keyword(token) == token \in KEYWORDS

\* the keywords k for which class Parser defines a method __parse_<k>
\* (lines 309-444): every keyword but do and od
KeywordParseMethods == KEYWORDS \ {KW_do, KW_od}

\* the keyword handlers whose body is pass (lines 365-372, 431-444)
PassHandlers ==
  {KW_let, KW_var, KW_array, KW_while, KW_function, KW_procedure, KW_return,
   KW_call}

\* parse_method(parent) for the handler of keyword k
KeywordHandler(k) ==
  IF k = KW_if THEN EnterIf
  ELSE IF k = KW_then
    THEN Raise("ThenFoundException", "if encountered without a matching then.")
  ELSE IF k = KW_else
    THEN Raise("ElseFoundException", "if encountered without a matching else.")
  ELSE IF k = KW_fi
    THEN Raise("FiFoundException", "if encountered without a matching fi.")
  ELSE IF k = KW_main
    \* __parse_main(self) takes no parent (line 309)
    THEN Raise("TypeError", "__parse_main() takes exactly 1 argument (2 given)")
  ELSE ReturnNone

\* __parse_next_token(token, parent): what the call does
parse_next_token(token) ==
  IF is_keyword(token)
    THEN IF token \in KeywordParseMethods
           THEN KeywordHandler(token)
           \* getattr finds no method (line 360)
           ELSE Raise("AttributeError", "_Parser__parse_<keyword>")
    \* line 348 calls self.is_control_character, which class Parser never
    \* defines (it defines is_keyword only, lines 581-582)
    ELSE Raise("AttributeError", "is_control_character")

(***************************************************************************)
(* The handlers' frames.  A frame holds the locals of one active call of   *)
(* __parse_main or __parse_if: node is main_node or if_node, current_node  *)
(* the parent given to dispatch, token the loop variable (<<>> while it is *)
(* unbound).  When an exception leaves __parse the frames are kept as they *)
(* were when it was raised (the traceback).                                *)
(***************************************************************************)
MainFrame(main_node) ==
  [fn |-> "main", node |-> main_node, current_node |-> main_node,
   children_nodes |-> <<>>, then_found |-> FALSE, fi_found |-> FALSE,
   token |-> <<>>]

IfFrame(if_node, condition_node) ==
  [fn |-> "if", node |-> if_node, current_node |-> condition_node,
   children_nodes |-> <<>>, then_found |-> FALSE, fi_found |-> FALSE,
   token |-> <<>>]

Top == stack[Len(stack)]

ReplaceTop(st, f) == [st EXCEPT ![Len(st)] = f]

\* the callee's frame is popped and its value appended to the caller's
\* children_nodes (lines 321 and 390)
ReturnToCaller(st, value) ==
  LET rest == SubSeq(st, 1, Len(st) - 1) IN
    [rest EXCEPT ![Len(rest)].children_nodes = Append(@, value)]

\* the start of __parse_if(parent) (lines 375-386): the if node, its
\* condition node, and the condition node appended to the if node
IfPrologue(ns, parent) ==
  LET ns1 == Node(ns, "keyword", KW_if, parent)
      if_node == Len(ns1)
      ns2 == Node(ns1, "abstract", NAME_condition, if_node)
      condition_node == Len(ns2)
  IN [nodes |-> append_children(ns2, if_node, <<condition_node>>),
      frame |-> IfFrame(if_node, condition_node)]

\* a branch keyword caught by __parse_if opens the branch (lines 392-397 and
\* 402-406): the branch node, the children gathered so far sealed into the
\* branch before it, the branch node appended to the if node
OpenBranch(ns, f, keyword) ==
  LET ns1 == Node(ns, "keyword", keyword, f.node)
      branch == Len(ns1)
      ns2 == append_children(ns1, f.current_node, f.children_nodes)
  IN [nodes |-> append_children(ns2, f.node, <<branch>>),
      frame |-> [f EXCEPT !.current_node = branch, !.children_nodes = <<>>]]

Continue(ns, f) == [flow |-> "continue", nodes |-> ns, frame |-> f,
                    exc |-> "", msg |-> ""]
ReturnIf(ns, f) == [flow |-> "return", nodes |-> ns, frame |-> f,
                    exc |-> "", msg |-> ""]
Propagate(ns, f, exc, msg) == [flow |-> "raise", nodes |-> ns, frame |-> f,
                               exc |-> exc, msg |-> msg]

\* except ThenFoundException (lines 391-397)
OnThen_Reraise(ns, f) ==
  LET b == OpenBranch(ns, f, KW_then) IN
    Propagate(b.nodes, [b.frame EXCEPT !.then_found = TRUE],
              "ThenFoundException", "")

OnThen(ns, f) ==
  LET b == OpenBranch(ns, f, KW_then) IN
    Continue(b.nodes, [b.frame EXCEPT !.then_found = TRUE])

\* except ElseFoundException (lines 398-406)
OnElse_NoThenCheck(ns, f) ==
  LET b == OpenBranch(ns, f, KW_else) IN Continue(b.nodes, b.frame)

OnElse(ns, f) ==
  IF ~f.then_found
    THEN Propagate(ns, f, "LanguageSyntaxError", MsgElseBeforeThen)
    ELSE LET b == OpenBranch(ns, f, KW_else) IN Continue(b.nodes, b.frame)

\* the checks after the loop of __parse_if (lines 414-420)
AfterIfLoop(ns, f) ==
  IF ~f.then_found THEN Propagate(ns, f, "LanguageSyntaxError", MsgNoThen)
  ELSE IF ~f.fi_found THEN Propagate(ns, f, "LanguageSyntaxError", MsgNoFi)
  ELSE ReturnIf(ns, f)

\* except FiFoundException (lines 407-412), and after the break the checks
\* that follow the loop
OnFi_NoThenCheck(ns, f) ==
  AfterIfLoop(append_children(ns, f.current_node, f.children_nodes),
              [f EXCEPT !.fi_found = TRUE])

OnFi_NoBreak(ns, f) ==
  IF ~f.then_found
    THEN Propagate(ns, f, "LanguageSyntaxError", MsgFiBeforeThen)
    ELSE Continue(append_children(ns, f.current_node, f.children_nodes),
                  [f EXCEPT !.fi_found = TRUE])

OnFi(ns, f) ==
  IF ~f.then_found
    THEN Propagate(ns, f, "LanguageSyntaxError", MsgFiBeforeThen)
    ELSE AfterIfLoop(append_children(ns, f.current_node, f.children_nodes),
                     [f EXCEPT !.fi_found = TRUE])

\* the try statement of __parse_if (lines 389-412) around a call that
\* raised: the three boundary exceptions it names are caught, every other
\* exception passes through
IfExcept_CatchesBaseClass(ns, f, exc, msg) ==
  IF exc \in {"ThenFoundException", "LanguageSyntaxError"} THEN OnThen(ns, f)
  ELSE IF exc = "ElseFoundException" THEN OnElse(ns, f)
  ELSE IF exc = "FiFoundException" THEN OnFi(ns, f)
  ELSE Propagate(ns, f, exc, msg)

IfExcept(ns, f, exc, msg) ==
  IF exc = "ThenFoundException" THEN OnThen(ns, f)
  ELSE IF exc = "ElseFoundException" THEN OnElse(ns, f)
  ELSE IF exc = "FiFoundException" THEN OnFi(ns, f)
  ELSE Propagate(ns, f, exc, msg)

\* the checks after the loop of __parse_main (lines 326-331)
AfterMainLoop(ns, f) ==
  IF f.token = <<>>
    THEN [nodes |-> ns,
          result |-> [kind |-> "UnboundLocalError", msg |-> "token",
                      root |-> NoNode]]
  ELSE IF f.token # <<".">>
    THEN [nodes |-> ns,
          result |-> [kind |-> "LanguageSyntaxError", msg |-> MsgNoPeriod,
                      root |-> NoNode]]
  ELSE [nodes |-> append_children(ns, f.node, f.children_nodes),
        result |-> [kind |-> "returned", msg |-> "", root |-> f.node]]

Failed(exc, msg) == [kind |-> exc, msg |-> msg, root |-> NoNode]

\* main has no try statement: every exception leaves it
MainExcept(ns, f, exc, msg) == Propagate(ns, f, exc, msg)

Except(ns, f, exc, msg) ==
  IF f.fn = "if" THEN IfExcept(ns, f, exc, msg) ELSE MainExcept(ns, f, exc, msg)

AfterLoop(ns, f) ==
  IF f.fn = "if" THEN AfterIfLoop(ns, f)
  ELSE LET a == AfterMainLoop(ns, f) IN
    IF a.result.kind = "returned" THEN ReturnIf(a.nodes, f)
    ELSE Propagate(a.nodes, f, a.result.kind, a.result.msg)

(***************************************************************************)
(* The parser runs: Parser(program_file) on a source text.                 *)
(***************************************************************************)
ParseVocab == {KW_if, KW_then, KW_else, KW_fi, KW_let, <<".">>}

\* let
NoMainProgram == <<KW_let>>
\* let main if then fi
LateMainProgram == <<KW_let, KW_main, KW_if, KW_then, KW_fi>>
\* main { let a <- 1 } .
MinimalProgram == <<KW_main, <<"{">>, KW_let, <<"a">>, <<"<","-">>, <<"1">>, <<"}">>, <<".">>>>
\* main { if a < b then let x <- 1 else let x <- 2 fi } .
IfElseProgram == <<KW_main, <<"{">>, KW_if, <<"a">>, <<"<">>, <<"b">>, KW_then, KW_let, <<"x">>, <<"<","-">>, <<"1">>, KW_else, KW_let, <<"x">>, <<"<","-">>, <<"2">>, KW_fi, <<"}">>, <<".">>>>
\* main if a < b then let x <- 1 else let x <- 2 fi
IfElseFragment == <<KW_main, KW_if, <<"a">>, <<"<">>, <<"b">>, KW_then, KW_let, <<"x">>, <<"<","-">>, <<"1">>, KW_else, KW_let, <<"x">>, <<"<","-">>, <<"2">>, KW_fi>>
\* main if let then let else let fi let
KeywordIfElse == <<KW_main, KW_if, KW_let, KW_then, KW_let, KW_else, KW_let, KW_fi, KW_let>>
\* main if if then fi then if then else fi fi
NestedIfs == <<KW_main, KW_if, KW_if, KW_then, KW_fi, KW_then, KW_if, KW_then, KW_else, KW_fi, KW_fi>>
\* main a [ 1
UnmatchedBracket == <<KW_main, <<"a">>, <<"[">>, <<"1">>>>
\* main [
UnmatchedBracketOnly == <<KW_main, <<"[">>>>
\* main { let
UnmatchedBrace == <<KW_main, <<"{">>, KW_let>>
\* main call ( let
UnmatchedParen == <<KW_main, KW_call, <<"(">>, KW_let>>
\* main while do od
DoProgram == <<KW_main, KW_while, KW_do, KW_od>>
\* main main .
MainTwice == <<KW_main, KW_main, <<".">>>>

NamedPrograms ==
  {<<>>, NoMainProgram, LateMainProgram, MinimalProgram, IfElseProgram, IfElseFragment, KeywordIfElse, NestedIfs, UnmatchedBracket, UnmatchedBracketOnly, UnmatchedBrace, UnmatchedParen, DoProgram, MainTwice}

Programs ==
  {<<KW_main>> \o body : body \in SeqsUpTo(ParseVocab, MaxTokens)}
    \cup NamedPrograms

\* the source has been read (line 294); __parse has not been called
InitParse ==
  /\ pc = "parse"
  /\ \E ts \in Programs : src = JoinWithSpace(ts)
  /\ tokens = <<>>
  /\ sp = SpNone
  /\ ret = NoCall
  /\ nodes = <<>>
  /\ stack = <<>>
  /\ result = Running

\* Parser.__parse and __parse_main up to its loop (lines 305-317)
ParseEntry ==
  /\ pc = "parse"
  /\ tokens' = Tokenize(src)
  /\ LET ff == fastforward(tokens', 0, KW_main) IN
       IF ff.ret.exc # ""
         THEN /\ sp' = ff.sp
              /\ ret' = ff.ret
              /\ result' = Failed(ff.ret.exc, MsgMainNotFound)
              /\ pc' = "done"
              /\ UNCHANGED <<nodes, stack>>
         ELSE LET nx == next(tokens', ff.sp) IN
              /\ sp' = nx.sp
              /\ ret' = nx.ret
              /\ nodes' = Node(<<>>, "keyword", nx.ret.val, NoNode)
              /\ stack' = <<MainFrame(1)>>
              /\ pc' = "running"
              /\ UNCHANGED result
  /\ UNCHANGED src

\* an exception that leaves a handler reaches the call in its caller's loop
\* (line 390 under the try of __parse_if, line 321 in __parse_main) and so
\* on outwards: the stack and outcome once a caller has caught it or it has
\* left __parse_main.  st is the stack whose top frame ended with h.
RECURSIVE Settle(_, _)
Settle(st, h) ==
  IF h.flow # "raise" \/ Len(st) = 1 THEN [stack |-> st, h |-> h]
  ELSE LET callers == SubSeq(st, 1, Len(st) - 1) IN
    Settle(callers,
           Except(h.nodes, callers[Len(callers)], h.exc, h.msg))

\* how the run goes on after the body of the innermost handler's loop, or
\* the code after the loop, ended with h: the loop continues, the handler
\* returns its node to its caller (to Parser.__parse when it is
\* __parse_main), or an exception no handler catches leaves the parse; the
\* frames are then kept as they were when it was raised
Resume(h) ==
  LET s == Settle(stack, h) IN
  /\ nodes' = s.h.nodes
  /\ CASE s.h.flow = "continue" ->
            /\ stack' = ReplaceTop(s.stack, s.h.frame)
            /\ UNCHANGED <<pc, result>>
       [] s.h.flow = "return" /\ Len(s.stack) > 1 ->
            /\ stack' = ReturnToCaller(ReplaceTop(s.stack, s.h.frame),
                                       s.h.frame.node)
            /\ UNCHANGED <<pc, result>>
       [] s.h.flow = "return" /\ Len(s.stack) = 1 ->
            /\ stack' = ReplaceTop(s.stack, s.h.frame)
            /\ result' = [kind |-> "returned", msg |-> "",
                          root |-> s.h.frame.node]
            /\ pc' = "done"
       [] s.h.flow = "raise" ->
            /\ stack' = ReplaceTop(stack, h.frame)
            /\ result' = Failed(s.h.exc, s.h.msg)
            /\ pc' = "done"

\* one iteration of the for loop of the handler fn (lines 319-321 and
\* 388-412): the next token is read and dispatched
LoopToken(fn) ==
  /\ pc = "running"
  /\ Top.fn = fn
  /\ LET nx == next(tokens, sp) IN
     /\ nx.ret.exc = ""
     /\ sp' = nx.sp
     /\ ret' = nx.ret
     /\ LET f == [Top EXCEPT !.token = nx.ret.val]
            d == parse_next_token(nx.ret.val)
        IN CASE d.kind = "None" ->
                  Resume(Continue(nodes,
                           [f EXCEPT !.children_nodes = Append(@, NoNode)]))
             [] d.kind = "if" ->
                  LET p == IfPrologue(nodes, f.current_node) IN
                    /\ nodes' = p.nodes
                    /\ stack' = Append(ReplaceTop(stack, f), p.frame)
                    /\ UNCHANGED <<pc, result>>
             [] d.kind = "raise" ->
                  Resume(Except(nodes, f, d.exc, d.msg))
  /\ UNCHANGED <<src, tokens>>

\* the for loop of the handler fn ends: next() raised StopIteration
LoopEnd(fn) ==
  /\ pc = "running"
  /\ Top.fn = fn
  /\ LET nx == next(tokens, sp) IN
     /\ nx.ret.exc = "StopIteration"
     /\ sp' = nx.sp
     /\ ret' = nx.ret
     /\ Resume(AfterLoop(nodes, Top))
  /\ UNCHANGED <<src, tokens>>

MainLoopToken == LoopToken("main")
MainLoopEnd == LoopEnd("main")
IfLoopToken == LoopToken("if")
IfLoopEnd == LoopEnd("if")

Next == ParseEntry \/ MainLoopToken \/ MainLoopEnd \/ IfLoopToken \/ IfLoopEnd

Spec == InitParse /\ [][Next]_vars

(***************************************************************************)
(* Leaf resolution (lines 559-579).                                        *)
(***************************************************************************)
Raised(ns, exc, msg) == [nodes |-> ns, exc |-> exc, msg |-> msg]

\* __parse_ident(parent, token) (lines 559-563): the raise is not under an
\* else, so it is reached whether or not the node was created
parse_ident(ns, parent, token) ==
  Raised(IF IDENT_RE_match(token) THEN Node(ns, "ident", token, parent) ELSE ns,
         "LanguageSyntaxError", MsgExpectedIdent)

\* __parse_number(parent, token) (lines 565-569), of the same shape
parse_number(ns, parent, token) ==
  Raised(IF NUMBER_RE_match(token) THEN Node(ns, "number", token, parent) ELSE ns,
         "LanguageSyntaxError", MsgExpectedNumber)

\* __parse_ident_or_number(parent, token) (lines 571-579)
parse_ident_or_number(ns, parent, token) ==
  LET a == parse_ident(ns, parent, token) IN
    IF a.exc # "LanguageSyntaxError" THEN a
    ELSE LET b == parse_number(a.nodes, parent, token) IN
      IF b.exc # "LanguageSyntaxError" THEN b
      ELSE Raised(b.nodes, "LanguageSyntaxError", MsgNeither)

(***************************************************************************)
(* The leaf runs: a leaf handler is called with a parent node and a bare   *)
(* token, a token of the tokenizer that is no keyword.                     *)
(***************************************************************************)
LeafChars == {"a", "b", "1", "2", "$"}

Tok123 == <<"1","2","3">>
TokAbc123 == <<"a","b","c","1","2","3">>

LeafTokens ==
  {t \in SeqsUpTo(LeafChars, MaxLeafLen) :
     t # <<>> /\ Tokenize(t) = <<t>> /\ ~is_keyword(t)}
    \cup {Tok123, TokAbc123}

InitLeaf ==
  /\ pc = "leaf"
  /\ \E t \in LeafTokens :
       /\ src = JoinWithSpace(<<KW_main, t>>)
       /\ tokens = Tokenize(src)
  /\ sp = 2
  /\ ret = NoCall
  /\ nodes = Node(<<>>, "keyword", KW_main, NoNode)
  /\ stack = <<>>
  /\ result = Running

\* the handler `op` is called with the root as parent and the bare token,
\* and ends with outcome r
LeafCall(op, r) ==
  /\ pc = "leaf"
  /\ nodes' = r.nodes
  /\ ret' = [op |-> op, arg |-> tokens[2], from |-> sp, exc |-> r.exc,
             val |-> <<>>]
  /\ result' = IF r.exc = "" THEN [kind |-> "returned", msg |-> "", root |-> NoNode]
               ELSE Failed(r.exc, r.msg)
  /\ pc' = "done"
  /\ UNCHANGED <<src, tokens, sp, stack>>

CallParseIdent == LeafCall("__parse_ident", parse_ident(nodes, 1, tokens[2]))

CallParseNumber == LeafCall("__parse_number", parse_number(nodes, 1, tokens[2]))

CallParseIdentOrNumber ==
  LeafCall("__parse_ident_or_number", parse_ident_or_number(nodes, 1, tokens[2]))

NextLeaf == CallParseIdent \/ CallParseNumber \/ CallParseIdentOrNumber

SpecLeaf == InitLeaf /\ [][NextLeaf]_vars

(***************************************************************************)
(* C1: tokenizing yields the lexical tokens in source order and drops only *)
(* whitespace: the tokens concatenated are the source without its          *)
(* whitespace, and "let x <- 1 + 2 ;" yields let, x, <-, 1, +, 2, ;        *)
(***************************************************************************)
C1_TokensDropOnlyWhitespace ==
  pc = "tokenized" =>
    /\ Flatten(tokens) = StripWhitespace(src)
    /\ src = SrcLet =>
         tokens = << <<"l","e","t">>, <<"x">>, <<"<","-">>, <<"1">>, <<"+">>,
                     <<"2">>, <<";">> >>

(***************************************************************************)
(* C8 as stated: the tokenizer rejects "1abc"; it is not split into the    *)
(* tokens "1" and "abc".                                                   *)
(***************************************************************************)
C8_TokenizerRejects1abc ==
  (pc = "tokenized" /\ src = Src1abc) =>
    tokens # << <<"1">>, <<"a","b","c">> >>

\* a source that is a run of digits immediately followed by an identifier
DigitsThenIdent(s) ==
  LET n == RunLen(s, 1, Digit) IN
    /\ n > 0
    /\ n < Len(s)
    /\ s[n + 1] \in Letter
    /\ \A k \in (n + 1)..Len(s) : s[k] \in Letter \cup Digit

(***************************************************************************)
(* C8 as amended: the tokenizer rejects nothing; a run of digits           *)
(* immediately followed by an identifier, such as "1abc", becomes two      *)
(* tokens, the digits and then the identifier ("1" and "abc").             *)
(***************************************************************************)
C8_DigitsThenIdentAreSplit ==
  (pc = "tokenized" /\ DigitsThenIdent(src)) =>
    LET n == RunLen(src, 1, Digit) IN
      tokens = << SubSeq(src, 1, n), SubSeq(src, n + 1, Len(src)) >>

C8_Witness ==
  /\ pc = "tokenized"
  /\ src = Src1abc
  /\ Len(tokens) = 2

(***************************************************************************)
(* C9: fastforward(t) searches forward from the cursor: from a cursor at p *)
(* it leaves the cursor at the first index >= p that holds t and never     *)
(* below p; when t does not occur there it fails with a syntax error.      *)
(***************************************************************************)
C9_FastForwardSearchesForward ==
  (ret.op = "fastforward" /\ ret.from # SpNone) =>
    LET want == IndexFrom(tokens, ret.arg, ret.from) IN
      IF want = SpNone
        THEN ret.exc = "LanguageSyntaxError"
        ELSE ret.exc = "" /\ sp = want /\ sp >= ret.from

(***************************************************************************)
(* C10: iteration is single-pass and forward-only: a successful next()     *)
(* returns the token at the cursor and moves the cursor forward by one,    *)
(* and once the stream is exhausted every further next() raises the        *)
(* end-of-stream signal again instead of restarting at the first token.    *)
(***************************************************************************)
C10_NextIsSinglePass ==
  ret.op = "next" =>
    /\ ret.exc = "" =>
         /\ ret.from # SpNone
         /\ ret.val = tokens[ret.from + 1]
         /\ sp = ret.from + 1
    /\ ret.from = SpNone => ret.exc = "StopIteration"

(***************************************************************************)
(* C2: for a valid program (its tokens contain main and end with ".") the  *)
(* parse completes and the root of the tree is a keyword node labelled     *)
(* main.                                                                   *)
(***************************************************************************)
C2_ValidProgramYieldsMainRoot ==
  (/\ pc = "done"
   /\ \E k \in 1..Len(tokens) : tokens[k] = KW_main
   /\ tokens[Len(tokens)] = <<".">>) =>
    /\ result.kind = "returned"
    /\ result.root # NoNode
    /\ nodes[result.root].type = "keyword"
    /\ nodes[result.root].name = KW_main
    /\ nodes[result.root].parent = NoNode

\* how often node n occurs among the children of node p
Occurrences(p, n) ==
  Cardinality({k \in 1..Len(nodes[p].children) : nodes[p].children[k] = n})

\* the construction order of node n among the nodes with its parent
SiblingOrder(n) ==
  Cardinality({m \in 1..n : nodes[m].parent = nodes[n].parent})

(***************************************************************************)
(* C3: in every state of tree construction every node n with a parent      *)
(* occurs among its parent's children exactly once, at the index that is   *)
(* its construction order among its siblings.                              *)
(***************************************************************************)
C3_ChildOnceAtConstructionOrder ==
  \A n \in 1..Len(nodes) :
    nodes[n].parent # NoNode =>
      /\ Occurrences(nodes[n].parent, n) = 1
      /\ SiblingOrder(n) <= Len(nodes[nodes[n].parent].children)
      /\ nodes[nodes[n].parent].children[SiblingOrder(n)] = n

(***************************************************************************)
(* C4: an if node returned by the conditional handler has two or three     *)
(* children in source order: the condition, the then branch and, exactly   *)
(* when the fragment has an else, the else branch.                         *)
(***************************************************************************)
C4_IfNodeHasTwoOrThreeChildren ==
  \A i \in 1..Len(stack) : \A k \in 1..Len(stack[i].children_nodes) :
    LET n == stack[i].children_nodes[k] IN
      n # NoNode =>
        LET c == nodes[n].children IN
          /\ Len(c) \in {2, 3}
          /\ nodes[c[1]].name = NAME_condition
          /\ nodes[c[2]].name = KW_then
          /\ Len(c) = 3 => nodes[c[3]].name = KW_else
          /\ (\E m \in 1..Len(nodes) :
                nodes[m].parent = n /\ nodes[m].name = KW_else) => Len(c) = 3

(***************************************************************************)
(* C5: when the loop of an if handler reads fi before it has seen a then,  *)
(* the parse fails with the syntax error that names the missing then, and  *)
(* when its loop finds the stream exhausted after a then and before any    *)
(* fi, the parse fails with the syntax error that names the missing fi; in *)
(* both cases the handler returns no if node.                              *)
(***************************************************************************)
C5_MissingThenOrFiIsSyntaxError ==
  [][(pc = "running" /\ Top.fn = "if") =>
       /\ (~Top.then_found /\ sp < Len(tokens) /\ tokens[sp + 1] = KW_fi) =>
            /\ result' = Failed("LanguageSyntaxError", MsgFiBeforeThen)
            /\ Len(stack') = Len(stack)
            /\ pc' = "done"
       /\ (Top.then_found /\ sp >= Len(tokens)) =>
            /\ result' = Failed("LanguageSyntaxError", MsgNoFi)
            /\ Len(stack') = Len(stack)
            /\ pc' = "done"]_vars

C5_Witness ==
  /\ pc = "done"
  /\ stack # <<>>
  /\ Top.fn = "if"
  /\ Top.token = KW_fi
  /\ ~Top.then_found
  /\ result = Failed("LanguageSyntaxError", MsgFiBeforeThen)

\* an opening delimiter among the tokens with no closing one after it
UnmatchedOpener(ts, open, close) ==
  \E k \in 1..Len(ts) :
    ts[k] = <<open>> /\ \A j \in (k + 1)..Len(ts) : ts[j] # <<close>>

(***************************************************************************)
(* C6: a program with an opening bracket, brace or parenthesis that has no *)
(* matching closing delimiter fails with a syntax error that names that    *)
(* kind of delimiter.                                                      *)
(***************************************************************************)
C6_UnmatchedDelimiterIsSyntaxError ==
  (pc = "done" /\ \E k \in 1..Len(tokens) : tokens[k] = KW_main) =>
    /\ UnmatchedOpener(tokens, "[", "]") =>
         result = Failed("LanguageSyntaxError", "[ encountered without a matching ].")
    /\ UnmatchedOpener(tokens, "{", "}") =>
         result = Failed("LanguageSyntaxError", "{ encountered without a matching }.")
    /\ UnmatchedOpener(tokens, "(", ")") =>
         result = Failed("LanguageSyntaxError", "( encountered without a matching ).")

(***************************************************************************)
(* C7: leaf resolution tries the identifier, then the number, and raises a *)
(* syntax error only when both fail: "123" becomes exactly one number node *)
(* of the parent, "abc123" exactly one ident node, and neither raises.     *)
(***************************************************************************)
C7_LeafResolvesIdentThenNumber ==
  (pc = "done" /\ ret.op = "__parse_ident_or_number") =>
    /\ (IDENT_RE_match(ret.arg) \/ NUMBER_RE_match(ret.arg)) =>
         /\ result.kind = "returned"
         /\ Len(nodes) = 2
         /\ nodes[2].name = ret.arg
         /\ nodes[2].parent = 1
         /\ nodes[1].children = <<2>>
         /\ nodes[2].type = IF IDENT_RE_match(ret.arg) THEN "ident" ELSE "number"
    /\ ret.arg = Tok123 => nodes[2].type = "number"
    /\ ret.arg = TokAbc123 => nodes[2].type = "ident"
    /\ (~IDENT_RE_match(ret.arg) /\ ~NUMBER_RE_match(ret.arg)) =>
         result = Failed("LanguageSyntaxError", MsgNeither)

(***************************************************************************)
(* C11: look_ahead returns the token at the cursor and leaves the cursor   *)
(* unchanged; whenever no tokens remain, also after next() has signalled   *)
(* the end of the stream, it fails with IndexError and nothing else.       *)
(***************************************************************************)
C11_PeekFailsWithIndexError ==
  ret.op = "look_ahead" =>
    /\ sp = ret.from
    /\ (ret.from # SpNone /\ ret.from < Len(tokens)) =>
         ret.exc = "" /\ ret.val = tokens[ret.from + 1]
    /\ (ret.from = SpNone \/ ret.from >= Len(tokens)) =>
         ret.exc = "IndexError"

(***************************************************************************)
(* C12: a boundary signal (then, else, fi, right bracket, right brace or   *)
(* right parenthesis found) never leaves the main handler: no parse ends   *)
(* with one.                                                               *)
(***************************************************************************)
C12_NoBoundaryEscapesMain ==
  pc = "done" => result.kind \notin BoundaryExceptions

(***************************************************************************)
(* C13: a parse ends in one of two ways only: it returns the tree, all     *)
(* input consumed and the last token ".", or it fails with a               *)
(* LanguageSyntaxError; also when no token follows main or the last token  *)
(* is not ".".                                                             *)
(***************************************************************************)
C13_ReturnsOrSyntaxError ==
  pc = "done" =>
    \/ result.kind = "LanguageSyntaxError"
    \/ /\ result.kind = "returned"
       /\ tokens # <<>>
       /\ tokens[Len(tokens)] = <<".">>
       /\ sp = SpNone

\* the failures that are no outcome of dispatch: a missing predicate, map
\* or handler (AttributeError), a handler that does not take the parent
\* (TypeError)
InternalFailures == {"AttributeError", "TypeError"}

(***************************************************************************)
(* C19: dispatch is total: for every token the dispatcher reaches a        *)
(* handler that accepts the parent, so it ends by returning, by a boundary *)
(* signal or by a syntax error, never by an internal failure.              *)
(***************************************************************************)
C19_DispatchIsTotal ==
  (pc = "done" /\ stack # <<>> /\ Top.token # <<>>) =>
    /\ parse_next_token(Top.token).exc \notin InternalFailures
    /\ result.kind \notin InternalFailures

\* the token the next iteration of the innermost loop reads, <<>> when the
\* stream is exhausted
Upcoming == IF sp # SpNone /\ sp < Len(tokens) THEN tokens[sp + 1] ELSE <<>>

\* the code is about to raise the LanguageSyntaxError with message msg:
\* main is not found (line 206), the main loop ends on a token that is not
\* "." (line 327), the if handler reads else or fi before then (lines 400,
\* 409) or its loop ends without then or without fi (lines 415, 418)
AboutToRaise(msg) ==
  \/ /\ pc = "parse"
     /\ msg = MsgMainNotFound
     /\ \A k \in 1..Len(Tokenize(src)) : Tokenize(src)[k] # KW_main
  \/ /\ pc = "running"
     /\ Top.fn = "main"
     /\ Upcoming = <<>>
     /\ Top.token \notin {<<>>, <<".">>}
     /\ msg = MsgNoPeriod
  \/ /\ pc = "running"
     /\ Top.fn = "if"
     /\ \/ Upcoming = KW_else /\ ~Top.then_found /\ msg = MsgElseBeforeThen
        \/ Upcoming = KW_fi /\ ~Top.then_found /\ msg = MsgFiBeforeThen
        \/ Upcoming = <<>> /\ ~Top.then_found /\ msg = MsgNoThen
        \/ Upcoming = <<>> /\ Top.then_found /\ msg = MsgNoFi

SyntaxErrorMessages ==
  {MsgMainNotFound, MsgNoPeriod, MsgElseBeforeThen, MsgFiBeforeThen,
   MsgNoThen, MsgNoFi}

(***************************************************************************)
(* C14: a syntax error raised during the parse (by the search for main,    *)
(* by an if handler at any depth, by the check of the final period) aborts *)
(* the whole parse at once: the step that raises it ends the parse with    *)
(* that LanguageSyntaxError at the top level, no handler resumes, no       *)
(* further token is read afterwards and no root is set.                    *)
(***************************************************************************)
C14_SyntaxErrorAbortsParse ==
  [][/\ \A msg \in SyntaxErrorMessages :
          AboutToRaise(msg) =>
            /\ result' = Failed("LanguageSyntaxError", msg)
            /\ pc' = "done"
            /\ nodes' = nodes
            /\ Len(stack') = Len(stack)
     /\ result.kind = "LanguageSyntaxError" =>
          /\ sp' = sp
          /\ result' = result
          /\ result.root = NoNode]_vars

C14_Witness ==
  /\ pc = "done"
  /\ Len(stack) = 3
  /\ result = Failed("LanguageSyntaxError", MsgElseBeforeThen)
  /\ sp < Len(tokens)

(***************************************************************************)
(* C15: within one conditional a then is accepted only the first time: a   *)
(* second then read by the same if handler adds no second then branch to   *)
(* the if node.                                                            *)
(***************************************************************************)
C15_SecondThenRejected ==
  \A n \in 1..Len(nodes) :
    Cardinality({m \in 1..Len(nodes) :
                   nodes[m].parent = n /\ nodes[m].name = KW_then}) <= 1

(***************************************************************************)
(* C16: an else read by an if handler before it has seen a then fails with *)
(* the syntax error "else before then" and creates no else branch; an else *)
(* read after then seals the branch before it (the children gathered so    *)
(* far become its children) and starts the else branch under the if node.  *)
(***************************************************************************)
C16_ElseNeedsThen ==
  [][(pc = "running" /\ Top.fn = "if" /\ Upcoming = KW_else) =>
       IF ~Top.then_found
         THEN /\ result' = Failed("LanguageSyntaxError", MsgElseBeforeThen)
              /\ pc' = "done"
              /\ nodes' = nodes
         ELSE LET e == Len(nodes) + 1
                  top == stack'[Len(stack')] IN
              /\ pc' = "running"
              /\ Len(stack') = Len(stack)
              /\ Len(nodes') = e
              /\ nodes'[e].type = "keyword"
              /\ nodes'[e].name = KW_else
              /\ nodes'[e].parent = Top.node
              /\ nodes'[e].children = <<>>
              /\ nodes'[Top.current_node].children =
                   nodes[Top.current_node].children \o Top.children_nodes
              /\ top.current_node = e
              /\ top.children_nodes = <<>>
              /\ top.then_found]_vars

C16_Witness ==
  /\ pc = "done"
  /\ stack # <<>>
  /\ Top.fn = "if"
  /\ Top.token = KW_else
  /\ ~Top.then_found
  /\ result = Failed("LanguageSyntaxError", MsgElseBeforeThen)

RightDelimiterExceptions ==
  {"RightBracketFoundException", "RightBraceFoundException",
   "RightParenthesisFoundException"}

\* the frames of the if handlers that enclose the innermost one
OuterIfFrames == 2..(Len(stack) - 1)

(***************************************************************************)
(* C17: with conditionals nested, a then, else or fi is handled by the     *)
(* innermost open if handler and by no other: the step leaves every        *)
(* enclosing if handler's then_found, fi_found and current branch as they  *)
(* were and adds nothing to the enclosing if nodes or to their branches    *)
(* (the one change to an enclosing frame is the returned if node joining   *)
(* the direct caller's gathered children at fi), and no boundary exception *)
(* leaves the innermost handler. The try statement of an if handler passes *)
(* the three right-delimiter exceptions through unchanged.                 *)
(***************************************************************************)
C17_BoundaryCaughtByInnermostIf ==
  [][(pc = "running" /\ Top.fn = "if") =>
       /\ \A exc \in RightDelimiterExceptions :
            IfExcept(nodes, Top, exc, "") = Propagate(nodes, Top, exc, "")
       /\ (Len(stack) >= 3 /\ Upcoming \in {KW_then, KW_else, KW_fi}) =>
            /\ result'.kind \notin BoundaryExceptions
            /\ Len(stack') >= Len(stack) - 1
            /\ \A i \in OuterIfFrames :
                 /\ stack'[i].node = stack[i].node
                 /\ stack'[i].then_found = stack[i].then_found
                 /\ stack'[i].fi_found = stack[i].fi_found
                 /\ stack'[i].current_node = stack[i].current_node
                 /\ stack'[i].children_nodes =
                      IF i = Len(stack') /\ Len(stack') < Len(stack)
                        THEN Append(stack[i].children_nodes, Top.node)
                        ELSE stack[i].children_nodes
                 /\ nodes'[stack[i].node].children =
                      nodes[stack[i].node].children
                 /\ \A m \in 1..Len(nodes) :
                      nodes[m].parent = stack[i].node =>
                        nodes'[m] = nodes[m]]_vars

C17_Witness ==
  /\ pc = "running"
  /\ Len(stack) = 3
  /\ Top.token = KW_then
  /\ Top.then_found
  /\ ~stack[2].then_found
  /\ nodes[stack[2].current_node].name = NAME_condition

\* position in tokens (from 1) of the main the parse starts after
MainAt == CHOOSE k \in 1..Len(tokens) :
            /\ tokens[k] = KW_main
            /\ \A j \in 1..(k - 1) : tokens[j] # KW_main

IfPositions == {k \in (MainAt + 1)..Len(tokens) : tokens[k] = KW_if}

\* position of the if token that made the handler of if node n start: if
\* nodes are created in the order of the if tokens read
IfTokenOf(n) ==
  LET rank == Cardinality({m \in 1..n : nodes[m].name = KW_if}) IN
    CHOOSE p \in IfPositions :
      Cardinality({q \in IfPositions : q <= p}) = rank

CountIn(token, from, to) ==
  Cardinality({k \in from..to : tokens[k] = token})

\* position of the fi that closes the if at position p, 0 when there is none
MatchingFi(p) ==
  LET closes(q) == /\ tokens[q] = KW_fi
                   /\ CountIn(KW_fi, p + 1, q) = 1 + CountIn(KW_if, p + 1, q)
      closing == {q \in (p + 1)..Len(tokens) : closes(q)}
  IN IF closing = {} THEN 0
     ELSE CHOOSE q \in closing : \A r \in closing : q <= r

(***************************************************************************)
(* C18: an if handler that returns its node has consumed exactly the       *)
(* tokens of its conditional: in the step in which it returns, the cursor  *)
(* is left just after the fi that matches the if token that started it,    *)
(* so the calling handler's loop goes on with the token after that fi.     *)
(***************************************************************************)
C18_ReturnLeavesCursorAfterMatchingFi ==
  [][(pc = "running" /\ Top.fn = "if" /\ pc' = "running"
        /\ Len(stack') < Len(stack)) =>
       LET q == MatchingFi(IfTokenOf(Top.node)) IN
         /\ q # 0
         /\ sp' = q
         /\ Upcoming' = IF q < Len(tokens) THEN tokens[q + 1] ELSE <<>>]_vars

C18_Witness ==
  /\ pc = "running"
  /\ Len(stack) = 2
  /\ Top.fn = "if"
  /\ Top.token = KW_if
  /\ \E k \in 1..Len(Top.children_nodes) :
       /\ Top.children_nodes[k] # NoNode
       /\ nodes[Top.children_nodes[k]].name = KW_if
  /\ tokens[sp] = KW_fi
  /\ sp < Len(tokens)

=============================================================================
